---------------------------- MODULE Spec2Model ----------------------------
(***************************************************************************)
(* The three WebGL programs of the repository as one state machine:        *)
(*   "world"       the World class and its Cube() caller (two cubes,       *)
(*                 separate position / colour buffers),                    *)
(*   "interleaved" the Cube(length) function with generateCubeVertices     *)
(*                 (one cube, one interleaved buffer),                     *)
(*   "triangle"    the Triangle function of script2.js.                    *)
(* A block of source lines is a sequence of call records; Exec folds the   *)
(* calls over the WebGL context, and `calls` keeps the trace of every call *)
(* the program has made, tagged with the frame that made it (0 = setup).   *)
(* Floating-point literals are written in hundredths (0.75 is 75), angles  *)
(* in units of pi/16000 rad, buffer strides and offsets in bytes.          *)
(***************************************************************************)
EXTENDS Integers, Sequences, FiniteSets, TLC

VARIABLES
    variant,    \* which program runs
    host,       \* what the page and the driver provide (never changes)
    args,       \* arguments of the entry point (never changes)
    pc,         \* position of the script
    gl,         \* the WebGL context and everything it owns
    js,         \* the script's local variables (matrices, angle)
    calls,      \* trace of the calls made so far
    pending,    \* frame callbacks requested and not yet delivered
    frame,      \* number of loop iterations begun
    now         \* performance.now(), in milliseconds

vars == <<variant, host, args, pc, gl, js, calls, pending, frame, now>>

(* ------------------------------ bounds --------------------------------- *)
MaxFrames == 2
MaxTime == 2
MaxSide == 2

(* ----------------------------- geometry -------------------------------- *)
NULL == "null"

Hundredths(n) == n * 100

BYTES_PER_ELEMENT == 4

\* The six face colours, four vertices each.
colors ==
    << 50, 50, 50,    50, 50, 50,    50, 50, 50,    50, 50, 50,
       75, 25, 50,    75, 25, 50,    75, 25, 50,    75, 25, 50,
       25, 25, 75,    25, 25, 75,    25, 25, 75,    25, 25, 75,
       100, 0, 15,    100, 0, 15,    100, 0, 15,    100, 0, 15,
       0, 100, 15,    0, 100, 15,    0, 100, 15,    0, 100, 15,
       50, 50, 100,   50, 50, 100,   50, 50, 100,   50, 50, 100 >>

boxIndices ==
    << 0, 1, 2,     0, 2, 3,
       5, 4, 6,     6, 4, 7,
       8, 9, 10,    8, 10, 11,
       13, 12, 14,  15, 14, 12,
       16, 17, 18,  16, 18, 19,
       21, 20, 22,  22, 20, 23 >>

\* The 24 corner positions of a cube whose half side is h.
CubeCorners(h) ==
    << -h, h, -h,    -h, h, h,     h, h, h,      h, h, -h,
       -h, h, h,     -h, -h, h,    -h, -h, -h,   -h, h, -h,
       h, h, h,      h, -h, h,     h, -h, -h,    h, h, -h,
       h, h, h,      h, -h, h,     -h, -h, h,    -h, h, h,
       h, h, -h,     h, -h, -h,    -h, -h, -h,   -h, h, -h,
       -h, -h, -h,   -h, -h, h,    h, -h, h,     h, -h, -h >>

boxVertices == CubeCorners(Hundredths(1))

\* What a number array holds where the script stored undefined (NaN once in
\* a typed array): a value no coordinate, colour or index takes.
Undefined == 0 - 1000000

\* JavaScript's 0-based a[i]; reading past the end yields undefined.
At(a, i) == IF i + 1 \in DOMAIN a THEN a[i + 1] ELSE Undefined

RECURSIVE PushVertices(_, _, _, _)
PushVertices(vertices, vertexColors, i, vertexCount) ==
    IF i >= vertexCount THEN << >>
    ELSE << At(vertices, i * 3), At(vertices, i * 3 + 1), At(vertices, i * 3 + 2),
            At(vertexColors, i * 3), At(vertexColors, i * 3 + 1),
            At(vertexColors, i * 3 + 2) >>
         \o PushVertices(vertices, vertexColors, i + 1, vertexCount)

\* Mutant: the copying loop stops one vertex early.
generateCubeVertices_ShortLoop(sideLength, vertexColors) ==
    LET halfLength == sideLength \div 2
        vertices == CubeCorners(halfLength)
        vertexCount == Len(vertices) \div 3
    IN  PushVertices(vertices, vertexColors, 0, vertexCount - 1)

generateCubeVertices(sideLength, vertexColors) ==
    LET halfLength == sideLength \div 2
        vertices == CubeCorners(halfLength)
        vertexCount == Len(vertices) \div 3
    IN  PushVertices(vertices, vertexColors, 0, vertexCount)

triangleVert ==
    << 50, 50,     100, 0, 0,
       -50, -50,   0, 100, 0,
       50, -50,    0, 0, 100,
       50, 50,     100, 0, 0,
       -50, -50,   0, 100, 0,
       -50, 50,    0, 0, 100 >>

(* ----------------------------- matrices -------------------------------- *)
\* A 4x4 matrix is kept as the construction that produced it.
Identity == [kind |-> "identity", v |-> << >>]
Rotation(angle, axis) == [kind |-> "rotation", v |-> <<angle>> \o axis]
Translation(t) == [kind |-> "translation", v |-> t]
Mul(a, b) == [kind |-> a.kind \o "*" \o b.kind, v |-> a.v \o b.v]
Rotate(a, angle, axis) ==
    IF a = Identity THEN Rotation(angle, axis) ELSE Mul(a, Rotation(angle, axis))
LookAt(eye, center, up) == [kind |-> "lookAt", v |-> eye \o center \o up]
Perspective(fovyDeg, w, h, near, far) ==
    [kind |-> "perspective", v |-> <<fovyDeg, w, h, near, far>>]
ZeroMatrix == [kind |-> "zero", v |-> << >>]

(* --------------------------- WebGL context ----------------------------- *)
ShaderKinds == {"VERTEX", "FRAGMENT"}
AttribNames == <<"vertPosition", "vertColor">>
UniformNames == {"mWorld", "mView", "mProj"}

NoPointer ==
    [set |-> FALSE, enabled |-> FALSE, buffer |-> 0, size |-> 0,
     stride |-> 0, offset |-> 0]

\* getContext("webgl"): a fresh context, or null when the surface has none.
\* rejects: the shader stages whose source the driver fails to compile.
Context(isNull, rejects) ==
    [null |-> isNull, rejects |-> rejects,
     clearColor |-> <<0, 0, 0, 0>>, caps |-> {},
     programs |-> 0, compiled |-> {}, compileOK |-> {}, attached |-> {},
     linked |-> FALSE, linkOK |-> FALSE, inUse |-> FALSE,
     buffers |-> << >>, arrayBinding |-> 0, elementBinding |-> 0,
     attribs |-> [l \in 0..1 |-> NoPointer],
     uniforms |-> [u \in UniformNames |-> ZeroMatrix],
     clears |-> 0, draws |-> 0]

\* The script's locals that the calls read or write.
Locals ==
    [buffer |-> 0,
     loc |-> [a \in {"vertPosition", "vertColor"} |-> Undefined],
     uloc |-> [u \in UniformNames |-> NULL],
     mat |-> [m \in {"worldMatrix", "worldMatrix2", "viewMatrix", "projMatrix"}
                |-> ZeroMatrix],
     angle |-> 0]

\* gl.getAttribLocation: the attribute's index in a linked program, else -1.
AttribLocation(g, name) ==
    IF g.linkOK THEN (IF name = AttribNames[1] THEN 0 ELSE 1) ELSE -1

\* gl.getUniformLocation: a location in a linked program, else null.
UniformLocation(g, name) == IF g.linkOK THEN name ELSE NULL

\* gl.bindBuffer
BindBuffer(g, target, b) ==
    IF target = "ARRAY_BUFFER" THEN [g EXCEPT !.arrayBinding = b]
    ELSE [g EXCEPT !.elementBinding = b]

\* gl.bufferData: fills the buffer bound to the target (no-op when none is).
BufferData(g, target, type, data) ==
    LET b == IF target = "ARRAY_BUFFER" THEN g.arrayBinding ELSE g.elementBinding
    IN  IF b = 0 THEN g
        ELSE [g EXCEPT !.buffers[b] = [type |-> type, data |-> data]]

\* gl.vertexAttribPointer: records the layout together with the buffer bound
\* to ARRAY_BUFFER at the time of the call; an invalid location is an error
\* that changes nothing.
VertexAttribPointer(g, l, size, stride, offset) ==
    IF l \notin DOMAIN g.attribs \/ g.arrayBinding = 0 THEN g
    ELSE [g EXCEPT !.attribs[l] =
            [set |-> TRUE, enabled |-> @.enabled, buffer |-> g.arrayBinding,
             size |-> size, stride |-> stride, offset |-> offset]]

\* One call applied to s = [gl, js].
Apply(s, c) ==
    LET g == s.gl
        j == s.js
    IN
    CASE c.op = "clearColor" -> [s EXCEPT !.gl.clearColor = c.rgba]
      [] c.op = "clear" -> [s EXCEPT !.gl.clears = @ + 1]
      [] c.op = "enable" -> [s EXCEPT !.gl.caps = @ \cup {c.cap}]
      [] c.op = "createProgram" -> [s EXCEPT !.gl.programs = @ + 1]
      [] c.op = "compileShader" ->
            [s EXCEPT !.gl.compiled = @ \cup {c.kind},
                      !.gl.compileOK = @ \cup ({c.kind} \ g.rejects)]
      [] c.op = "attachShader" -> [s EXCEPT !.gl.attached = @ \cup {c.kind}]
      [] c.op = "linkProgram" ->
            [s EXCEPT !.gl.linked = TRUE,
                      !.gl.linkOK = (g.attached = ShaderKinds
                                     /\ g.compileOK = ShaderKinds)]
      [] c.op = "useProgram" -> [s EXCEPT !.gl.inUse = g.linkOK]
      [] c.op = "createBuffer" ->
            [s EXCEPT !.gl.buffers = Append(@, [type |-> "none", data |-> << >>]),
                      !.js.buffer = Len(g.buffers) + 1]
      [] c.op = "bindBuffer" -> [s EXCEPT !.gl = BindBuffer(g, c.target, j.buffer)]
      [] c.op = "bufferData" ->
            [s EXCEPT !.gl = BufferData(g, c.target, c.type, c.data)]
      [] c.op = "getAttribLocation" ->
            [s EXCEPT !.js.loc[c.name] = AttribLocation(g, c.name)]
      [] c.op = "vertexAttribPointer" ->
            [s EXCEPT !.gl = VertexAttribPointer(g, j.loc[c.name], c.size,
                                                 c.stride, c.offset)]
      [] c.op = "enableVertexAttribArray" ->
            IF j.loc[c.name] \in DOMAIN g.attribs
            THEN [s EXCEPT !.gl.attribs[j.loc[c.name]].enabled = TRUE]
            ELSE s
      [] c.op = "getUniformLocation" ->
            [s EXCEPT !.js.uloc[c.name] = UniformLocation(g, c.name)]
      [] c.op = "mat4" -> [s EXCEPT !.js.mat[c.out] = c.val]
      [] c.op = "angle" -> [s EXCEPT !.js.angle = c.val]
      [] c.op = "uniformMatrix4fv" ->
            IF j.uloc[c.name] = NULL \/ ~g.inUse THEN s
            ELSE [s EXCEPT !.gl.uniforms[c.name] = j.mat[c.src]]
      [] c.op \in {"drawElements", "drawArrays"} ->
            IF g.inUse THEN [s EXCEPT !.gl.draws = @ + 1] ELSE s
      [] OTHER -> s

RECURSIVE Exec(_, _)
Exec(s, ops) == IF ops = << >> THEN s ELSE Exec(Apply(s, Head(ops)), Tail(ops))

\* The calls of one block as trace entries of frame f; threw marks a call
\* whose evaluation raised a TypeError (a member read on null).
Tagged(ops, f) ==
    [i \in 1..Len(ops) |-> [frame |-> f, call |-> ops[i], threw |-> FALSE]]
Thrown(c, f) == <<[frame |-> f, call |-> c, threw |-> TRUE]>>

RECURSIVE NumRequests(_)
NumRequests(ops) ==
    IF ops = << >> THEN 0
    ELSE (IF Head(ops).op = "requestAnimationFrame" THEN 1 ELSE 0)
         + NumRequests(Tail(ops))

\* An optional array argument: << >> is null, <<a>> is the array a.
IsNull(opt) == opt = << >>

(* ------------------------- calls, by receiver -------------------------- *)
GL(op) == [op |-> op, on |-> "gl"]
Shader(op, kind) == [op |-> op, on |-> "gl", kind |-> kind]
Named(op, name) == [op |-> op, on |-> "gl", name |-> name]
Bind(target) == [op |-> "bindBuffer", on |-> "gl", target |-> target]
Data(target, type, data) ==
    [op |-> "bufferData", on |-> "gl", target |-> target, type |-> type,
     data |-> data, usage |-> "STATIC_DRAW"]
Pointer(name, size, stride, offset) ==
    [op |-> "vertexAttribPointer", on |-> "gl", name |-> name, size |-> size,
     type |-> "FLOAT", stride |-> stride, offset |-> offset]
Uniform(name, src) ==
    [op |-> "uniformMatrix4fv", on |-> "gl", name |-> name, src |-> src]
Mat4(fn, out, val) == [op |-> "mat4", on |-> "mat4", fn |-> fn, out |-> out, val |-> val]
Clear(mask) == [op |-> "clear", on |-> "gl", mask |-> mask]
ClearColor(rgba) == [op |-> "clearColor", on |-> "gl", rgba |-> rgba]
Enable(cap) == [op |-> "enable", on |-> "gl", cap |-> cap]
DrawElements(mode, count, type, offset) ==
    [op |-> "drawElements", on |-> "gl", mode |-> mode, count |-> count,
     type |-> type, offset |-> offset]
DrawArrays(mode, first, count) ==
    [op |-> "drawArrays", on |-> "gl", mode |-> mode, first |-> first,
     count |-> count]
RequestFrame == [op |-> "requestAnimationFrame", on |-> "window"]
Alert == [op |-> "alert", on |-> "window"]
ConsoleLog(what) == [op |-> "console.log", on |-> "console", what |-> what]
GetElementById == [op |-> "getElementById", on |-> "document", id |-> "main-canvas"]
GetContext == [op |-> "getContext", on |-> "canvas"]
PerformanceNow(t) == [op |-> "performance.now", on |-> "performance", t |-> t]

Angle(val) == [op |-> "angle", on |-> "js", val |-> val]

ColorDepth == {"COLOR_BUFFER_BIT", "DEPTH_BUFFER_BIT"}

(* --------------------- running a block of calls ----------------------- *)
\* The script runs ops to the end and goes to `next`.
Run(ops, next) ==
    LET s == Exec([gl |-> gl, js |-> js], ops)
    IN  /\ gl' = s.gl
        /\ js' = s.js
        /\ calls' = calls \o Tagged(ops, frame)
        /\ pending' = pending + NumRequests(ops)
        /\ pc' = next

\* The script runs ops, then evaluating the call c raises a TypeError: the
\* script stops with the exception uncaught.
Throw(ops, c) ==
    LET s == Exec([gl |-> gl, js |-> js], ops)
    IN  /\ gl' = s.gl
        /\ js' = s.js
        /\ calls' = calls \o Tagged(ops, frame) \o Thrown(c, frame)
        /\ pending' = pending + NumRequests(ops)
        /\ pc' = "thrown"

\* The host delivers one pending frame callback, which runs ops and goes to
\* `next`.
Deliver(ops, next) ==
    LET s == Exec([gl |-> gl, js |-> js], ops)
    IN  /\ frame' = frame + 1
        /\ gl' = s.gl
        /\ js' = s.js
        /\ calls' = calls \o Tagged(ops, frame + 1)
        /\ pending' = (pending - 1) + NumRequests(ops)
        /\ pc' = next

\* No script is on the stack: the host may deliver a frame callback.
StackEmpty == pc \in {"idle", "thrown", "done"}

(* ------------------- "world": class World and Cube() ------------------- *)
WorldBackground == <<50, 40, 70>>

\* prepareBackGround
prepareBackGround ==
    << ClearColor(WorldBackground \o <<100>>), Clear(ColorDepth),
       Enable("DEPTH_TEST"), Enable("CULL_FACE") >>

\* new World('main-canvas', [0.5, 0.4, 0.7])
WorldConstructor == <<GL("createProgram")>> \o prepareBackGround

\* loadShader(shaderTxt, type)
loadShader(type) ==
    << Shader("createShader", type), Shader("shaderSource", type),
       Shader("compileShader", type), Shader("attachShader", type) >>

\* Mutant: the program is linked before the fragment stage is loaded.
prepareShaders_LinkEarly ==
    loadShader("VERTEX") \o <<GL("linkProgram")>> \o loadShader("FRAGMENT")

\* prepareShaders()
prepareShaders ==
    loadShader("VERTEX") \o loadShader("FRAGMENT") \o <<GL("linkProgram")>>

\* Mutant: the index data goes through the ARRAY_BUFFER target.
prepareBuffer_IndicesToArray(type, name) ==
    <<GL("createBuffer")>>
    \o (IF name = "VERTEX" \/ name = "COLOR"
        THEN <<Bind("ARRAY_BUFFER"), Data("ARRAY_BUFFER", "Float32Array", type)>>
        ELSE << >>)
    \o (IF name = "INDICE"
        THEN <<Bind("ARRAY_BUFFER"), Data("ARRAY_BUFFER", "Uint16Array", type)>>
        ELSE << >>)

\* prepareBuffer(type, name): `type` is the data, `name` selects the target.
prepareBuffer(type, name) ==
    <<GL("createBuffer")>>
    \o (IF name = "VERTEX" \/ name = "COLOR"
        THEN <<Bind("ARRAY_BUFFER"), Data("ARRAY_BUFFER", "Float32Array", type)>>
        ELSE << >>)
    \o (IF name = "INDICE"
        THEN << Bind("ELEMENT_ARRAY_BUFFER"),
                Data("ELEMENT_ARRAY_BUFFER", "Uint16Array", type) >>
        ELSE << >>)

\* loadObject(vertices, colors, indices = null)
loadObject(vertices, vertexColors, indices) ==
    prepareBuffer(vertices, "VERTEX")
    \o (IF ~IsNull(indices) THEN prepareBuffer(indices[1], "INDICE") ELSE << >>)
    \o << Named("getAttribLocation", "vertPosition"),
           Pointer("vertPosition", 3, 3 * BYTES_PER_ELEMENT, 0),
           Named("enableVertexAttribArray", "vertPosition") >>
    \o prepareBuffer(vertexColors, "COLOR")
    \o << Named("getAttribLocation", "vertColor"),
           Pointer("vertColor", 3, 3 * BYTES_PER_ELEMENT, 0 * BYTES_PER_ELEMENT),
           Named("enableVertexAttribArray", "vertColor") >>

\* run(): from useProgram to the first requestAnimationFrame(loop).
WorldRunSetup ==
    << GL("useProgram"),
       Named("getUniformLocation", "mWorld"),
       Named("getUniformLocation", "mView"),
       Named("getUniformLocation", "mProj"),
       Mat4("create", "worldMatrix", Identity),
       Mat4("create", "worldMatrix2", Identity),
       Mat4("create", "viewMatrix", Identity),
       Mat4("lookAt", "viewMatrix",
            LookAt(<<0, 0, -800>>, <<0, 0, 0>>, <<0, 100, 0>>)),
       Mat4("create", "projMatrix", Identity),
       Mat4("perspective", "projMatrix",
            Perspective(45, host.width, host.clientHeight, 10, 100000)),
       Uniform("mWorld", "worldMatrix"),
       Uniform("mView", "viewMatrix"),
       Uniform("mProj", "projMatrix"),
       RequestFrame >>

\* loop, first statements: the angle and the clear.
WorldLoopBegin(t) == << PerformanceNow(t), Angle(t * 6), Clear(ColorDepth) >>

\* loop, first cube up to its upload; the draw call follows.
WorldLoopCube1(angle) ==
    << Mat4("mul", "worldMatrix",
            Mul(Translation(<<-100, -100, 0>>), Rotation(angle, <<1, 1, 0>>))),
       Uniform("mWorld", "worldMatrix") >>

\* loop, second cube up to its upload; the draw call follows.
WorldLoopCube2(angle) ==
    << Mat4("mul", "worldMatrix2",
            Mul(Translation(<<120, 120, 0>>), Rotation(angle \div 2, <<1, 1, 1>>))),
       Uniform("mWorld", "worldMatrix2") >>

\* gl.drawElements(gl.TRIANGLES, indices.length, gl.UNSIGNED_SHORT, 0)
WorldDraw(indices) == DrawElements("TRIANGLES", Len(indices), "UNSIGNED_SHORT", 0)

\* loop, last statement.
WorldLoopEnd == <<RequestFrame>>

W_Construct ==
    /\ variant = "world" /\ pc = "start"
    /\ IF ~host.canvas
       THEN Throw(<<GetElementById>>, GetContext)
       ELSE IF gl.null
       THEN Throw(<<GetElementById, GetContext>>, GL("createProgram"))
       ELSE Run(<<GetElementById, GetContext>> \o WorldConstructor, "prepareShaders")
    /\ UNCHANGED <<variant, host, args, frame, now>>

W_PrepareShaders ==
    /\ variant = "world" /\ pc = "prepareShaders"
    /\ Run(prepareShaders, "loadObject")
    /\ UNCHANGED <<variant, host, args, frame, now>>

W_LoadObject ==
    /\ variant = "world" /\ pc = "loadObject"
    /\ Run(loadObject(boxVertices, colors, args.indices), "runSetup")
    /\ UNCHANGED <<variant, host, args, frame, now>>

W_RunSetup ==
    /\ variant = "world" /\ pc = "runSetup"
    /\ Run(WorldRunSetup, "idle")
    /\ UNCHANGED <<variant, host, args, frame, now>>

\* The host delivers the pending callback: loop() starts.
W_LoopBegin ==
    /\ variant = "world" /\ StackEmpty /\ pending > 0 /\ frame < MaxFrames
    /\ \E t \in now..MaxTime :
          /\ now' = t
          /\ Deliver(WorldLoopBegin(t), "loopCube1")
    /\ UNCHANGED <<variant, host, args>>

W_LoopCube1 ==
    /\ variant = "world" /\ pc = "loopCube1"
    /\ IF IsNull(args.indices)
       THEN Throw(WorldLoopCube1(js.angle), [op |-> "indices.length", on |-> "js"])
       ELSE Run(WorldLoopCube1(js.angle) \o <<WorldDraw(args.indices[1])>>, "loopCube2")
    /\ UNCHANGED <<variant, host, args, frame, now>>

W_LoopCube2 ==
    /\ variant = "world" /\ pc = "loopCube2"
    /\ Run(WorldLoopCube2(js.angle) \o <<WorldDraw(args.indices[1])>>, "loopEnd")
    /\ UNCHANGED <<variant, host, args, frame, now>>

W_LoopEnd ==
    /\ variant = "world" /\ pc = "loopEnd"
    /\ Run(WorldLoopEnd, "idle")
    /\ UNCHANGED <<variant, host, args, frame, now>>

(* ------------- "interleaved": module code and Cube(length) ------------- *)
\* compile both stages, logging the info log of a stage that failed, then
\* link: lines 343-367 of the interleaved program.
CubeShaders(s) ==
    LET a == << Shader("createShader", "VERTEX"), Shader("createShader", "FRAGMENT"),
                Shader("shaderSource", "VERTEX"), Shader("shaderSource", "FRAGMENT"),
                Shader("compileShader", "VERTEX"),
                Shader("getShaderParameter", "VERTEX") >>
        b == a \o (IF "VERTEX" \notin Exec(s, a).gl.compileOK
                   THEN << Shader("getShaderInfoLog", "VERTEX"), ConsoleLog("VERTEX") >>
                   ELSE << >>)
              \o << Shader("compileShader", "FRAGMENT"),
                     Shader("getShaderParameter", "FRAGMENT") >>
        c == b \o (IF "FRAGMENT" \notin Exec(s, b).gl.compileOK
                   THEN << Shader("getShaderInfoLog", "FRAGMENT"),
                           ConsoleLog("FRAGMENT") >>
                   ELSE << >>)
    IN  c \o << GL("createProgram"),
                Shader("attachShader", "VERTEX"), Shader("attachShader", "FRAGMENT"),
                GL("linkProgram"),
                Shader("detachShader", "VERTEX"), Shader("detachShader", "FRAGMENT"),
                GL("validateProgram") >>

CubeBackground ==
    << ClearColor(<<50, 30, 90, 100>>), Clear(ColorDepth),
       Enable("DEPTH_TEST"), Enable("CULL_FACE") >>

\* buffer upload and attribute binding: lines 429-460.
CubeBuffers(length) ==
    << GL("createBuffer"), Bind("ARRAY_BUFFER"),
       Data("ARRAY_BUFFER", "Float32Array", generateCubeVertices(length, colors)),
       GL("createBuffer"), Bind("ELEMENT_ARRAY_BUFFER"),
       Data("ELEMENT_ARRAY_BUFFER", "Uint16Array", boxIndices),
       Named("getAttribLocation", "vertPosition"),
       Named("getAttribLocation", "vertColor"),
       Pointer("vertPosition", 3, 6 * BYTES_PER_ELEMENT, 0),
       Pointer("vertColor", 3, 6 * BYTES_PER_ELEMENT, 3 * BYTES_PER_ELEMENT),
       Named("enableVertexAttribArray", "vertPosition"),
       Named("enableVertexAttribArray", "vertColor") >>

\* from useProgram to the first requestAnimationFrame(loop): lines 462-491.
CubeSetup ==
    << GL("useProgram"),
       Named("getUniformLocation", "mWorld"),
       Named("getUniformLocation", "mView"),
       Named("getUniformLocation", "mProj"),
       Mat4("create", "worldMatrix", Identity),
       Mat4("create", "viewMatrix", Identity),
       Mat4("lookAt", "viewMatrix",
            LookAt(<<0, 0, -800>>, <<0, 0, 0>>, <<0, 100, 0>>)),
       Mat4("create", "projMatrix", Identity),
       Mat4("perspective", "projMatrix",
            Perspective(45, host.clientWidth, host.clientHeight, 10, 100000)),
       Uniform("mWorld", "worldMatrix"),
       Uniform("mView", "viewMatrix"),
       Uniform("mProj", "projMatrix"),
       RequestFrame >>

\* Mutant: the loop uploads the view matrix again on every frame.
CubeLoopBegin_ReuploadsView(t) ==
    << PerformanceNow(t), Angle(t * 4),
       Mat4("rotate", "worldMatrix", Rotate(Identity, t * 4, <<2, 1, 0>>)),
       Uniform("mWorld", "worldMatrix"),
       Uniform("mView", "worldMatrix") >>

\* Mutant: the frame is drawn and then cleared.
CubeLoopDraw_ClearsLast ==
    << DrawElements("TRIANGLES", Len(boxIndices), "UNSIGNED_SHORT", 0),
       Clear(ColorDepth) >>

\* loop of the interleaved program: lines 482-489.
CubeLoopBegin(t) ==
    << PerformanceNow(t), Angle(t * 4),
       Mat4("rotate", "worldMatrix", Rotate(Identity, t * 4, <<2, 1, 0>>)),
       Uniform("mWorld", "worldMatrix") >>

CubeLoopDraw ==
    << Clear(ColorDepth),
       DrawElements("TRIANGLES", Len(boxIndices), "UNSIGNED_SHORT", 0) >>

CubeLoopEnd == <<RequestFrame>>

\* Module level, lines 329-334: the context lookup and the alert.
C_Module ==
    /\ variant = "interleaved" /\ pc = "start"
    /\ IF ~host.canvas
       THEN Throw(<<GetElementById>>, GetContext)
       ELSE Run(<<GetElementById, GetContext>>
                \o (IF gl.null THEN <<Alert>> ELSE << >>), "cube")
    /\ UNCHANGED <<variant, host, args, frame, now>>

\* Cube(length) is called.
C_Background ==
    /\ variant = "interleaved" /\ pc = "cube"
    /\ IF gl.null
       THEN Throw(<< >>, Head(CubeBackground))
       ELSE Run(CubeBackground, "shaders")
    /\ UNCHANGED <<variant, host, args, frame, now>>

C_Shaders ==
    /\ variant = "interleaved" /\ pc = "shaders"
    /\ Run(CubeShaders([gl |-> gl, js |-> js]), "buffers")
    /\ UNCHANGED <<variant, host, args, frame, now>>

C_Buffers ==
    /\ variant = "interleaved" /\ pc = "buffers"
    /\ Run(CubeBuffers(args.length), "setup")
    /\ UNCHANGED <<variant, host, args, frame, now>>

C_Setup ==
    /\ variant = "interleaved" /\ pc = "setup"
    /\ Run(CubeSetup, "idle")
    /\ UNCHANGED <<variant, host, args, frame, now>>

C_LoopBegin ==
    /\ variant = "interleaved" /\ StackEmpty /\ pending > 0 /\ frame < MaxFrames
    /\ \E t \in now..MaxTime :
          /\ now' = t
          /\ Deliver(CubeLoopBegin(t), "loopDraw")
    /\ UNCHANGED <<variant, host, args>>

C_LoopDraw ==
    /\ variant = "interleaved" /\ pc = "loopDraw"
    /\ Run(CubeLoopDraw, "loopEnd")
    /\ UNCHANGED <<variant, host, args, frame, now>>

C_LoopEnd ==
    /\ variant = "interleaved" /\ pc = "loopEnd"
    /\ Run(CubeLoopEnd, "idle")
    /\ UNCHANGED <<variant, host, args, frame, now>>

(* ---------------------- "triangle": Triangle() ------------------------- *)
TriangleBackground == << ClearColor(<<50, 50, 90, 100>>), Clear({"COLOR_BUFFER_BIT"}) >>

\* lines 37-61 of script2.js.
TriangleShaders(s) ==
    LET a == << Shader("createShader", "VERTEX"), Shader("createShader", "FRAGMENT"),
                Shader("shaderSource", "VERTEX"), Shader("shaderSource", "FRAGMENT"),
                Shader("compileShader", "VERTEX"),
                Shader("getShaderParameter", "VERTEX") >>
        b == a \o (IF "VERTEX" \notin Exec(s, a).gl.compileOK
                   THEN << Shader("getShaderInfoLog", "VERTEX"), ConsoleLog("VERTEX") >>
                   ELSE << >>)
              \o << Shader("compileShader", "FRAGMENT"),
                     Shader("getShaderParameter", "FRAGMENT") >>
        c == b \o (IF "FRAGMENT" \notin Exec(s, b).gl.compileOK
                   THEN << Shader("getShaderInfoLog", "FRAGMENT"),
                           ConsoleLog("FRAGMENT") >>
                   ELSE << >>)
    IN  c \o << GL("createProgram"),
                Shader("attachShader", "VERTEX"), Shader("attachShader", "FRAGMENT"),
                GL("linkProgram"),
                Shader("detachShader", "VERTEX"), Shader("detachShader", "FRAGMENT"),
                GL("validateProgram") >>

\* lines 63-97 of script2.js.
TriangleBuffers ==
    << GL("createBuffer"), Bind("ARRAY_BUFFER"),
       Data("ARRAY_BUFFER", "Float32Array", triangleVert),
       Named("getAttribLocation", "vertPosition"),
       Named("getAttribLocation", "vertColor"),
       Pointer("vertPosition", 2, 5 * BYTES_PER_ELEMENT, 0),
       Pointer("vertColor", 3, 5 * BYTES_PER_ELEMENT, 2 * BYTES_PER_ELEMENT),
       Named("enableVertexAttribArray", "vertPosition"),
       Named("enableVertexAttribArray", "vertColor") >>

\* lines 99-100 of script2.js.
TriangleDraw == << GL("useProgram"), DrawArrays("TRIANGLES", 0, 6) >>

T_Context ==
    /\ variant = "triangle" /\ pc = "start"
    /\ IF ~host.canvas
       THEN Throw(<<GetElementById, ConsoleLog("canvas")>>, GetContext)
       ELSE Run(<<GetElementById, ConsoleLog("canvas"), GetContext>>
                \o (IF gl.null THEN <<Alert>> ELSE << >>), "background")
    /\ UNCHANGED <<variant, host, args, frame, now>>

T_Background ==
    /\ variant = "triangle" /\ pc = "background"
    /\ IF gl.null
       THEN Throw(<< >>, Head(TriangleBackground))
       ELSE Run(TriangleBackground, "shaders")
    /\ UNCHANGED <<variant, host, args, frame, now>>

T_Shaders ==
    /\ variant = "triangle" /\ pc = "shaders"
    /\ Run(TriangleShaders([gl |-> gl, js |-> js]), "buffers")
    /\ UNCHANGED <<variant, host, args, frame, now>>

T_Buffers ==
    /\ variant = "triangle" /\ pc = "buffers"
    /\ Run(TriangleBuffers, "draw")
    /\ UNCHANGED <<variant, host, args, frame, now>>

T_Draw ==
    /\ variant = "triangle" /\ pc = "draw"
    /\ Run(TriangleDraw, "done")
    /\ UNCHANGED <<variant, host, args, frame, now>>

(* --------------------------- specification ----------------------------- *)
Variants == {"world", "interleaved", "triangle"}

\* The pages and drivers a run may meet: no element, an element without
\* WebGL, or a context whose driver fails to compile the stages in `rejects`.
Hosts ==
    { h \in [canvas : BOOLEAN, webgl : BOOLEAN, rejects : SUBSET ShaderKinds,
             width : {4}, clientWidth : {4}, clientHeight : {3}] :
        /\ h.webgl => h.canvas
        /\ ~h.webgl => h.rejects = {} }

\* The arguments each entry point takes: World.run's optional indices, the
\* side length of Cube(length).
Args(v) ==
    IF v = "world"
    THEN { [length |-> Hundredths(2),
             indices |-> IF omitted THEN << >> ELSE <<boxIndices>>] :
           omitted \in BOOLEAN }
    ELSE IF v = "interleaved"
    THEN { [length |-> Hundredths(k), indices |-> <<boxIndices>>] : k \in 1..MaxSide }
    ELSE { [length |-> 0, indices |-> << >>] }

\* gl starts as what getContext is going to return; the script reads it only
\* after the getContext call.
Init ==
    /\ variant \in Variants
    /\ host \in Hosts
    /\ args \in Args(variant)
    /\ pc = "start"
    /\ gl = Context(~host.webgl, host.rejects)
    /\ js = Locals
    /\ calls = << >>
    /\ pending = 0
    /\ frame = 0
    /\ now = 0

Next ==
    \/ W_Construct \/ W_PrepareShaders \/ W_LoadObject \/ W_RunSetup
    \/ W_LoopBegin \/ W_LoopCube1 \/ W_LoopCube2 \/ W_LoopEnd
    \/ C_Module \/ C_Background \/ C_Shaders \/ C_Buffers \/ C_Setup
    \/ C_LoopBegin \/ C_LoopDraw \/ C_LoopEnd
    \/ T_Context \/ T_Background \/ T_Shaders \/ T_Buffers \/ T_Draw

Spec == Init /\ [][Next]_vars

(* ------------------------ reading the trace ---------------------------- *)
Calls == DOMAIN calls
Op(i) == calls[i].call.op
Is(i, op) == calls[i].call.op = op
IsNamed(i, op, name) == Is(i, op) /\ calls[i].call.name = name
FrameOf(i) == calls[i].frame
CountIn(f, op) == Cardinality({ i \in Calls : FrameOf(i) = f /\ Is(i, op) })
\* Iteration f has ended: a later one has begun, or the script is off the stack.
Ended(f) == f \in 1..frame /\ (f < frame \/ StackEmpty)
\* Iteration f has ended by returning, not by an uncaught exception.
Returned(f) == Ended(f) /\ ~\E i \in Calls : FrameOf(i) = f /\ calls[i].threw
Looping == variant \in {"world", "interleaved"}
WritesWorld(i) ==
    \/ IsNamed(i, "uniformMatrix4fv", "mWorld")
    \/ Is(i, "mat4") /\ calls[i].call.out \in {"worldMatrix", "worldMatrix2"}

(* ------------------------------ claims --------------------------------- *)

\* C1 as stated: in every iteration of both cube loops the clear precedes
\* every recomputation and every upload of a world matrix, and every draw
\* call follows an upload to mWorld made in the same iteration.
C1_ClearFirst ==
    Looping =>
      \A i \in Calls : FrameOf(i) >= 1 =>
        /\ Is(i, "clear") =>
              \A j \in Calls : (FrameOf(j) = FrameOf(i) /\ WritesWorld(j)) => i < j
        /\ Is(i, "drawElements") =>
              \E j \in 1..(i - 1) :
                  FrameOf(j) = FrameOf(i) /\ IsNamed(j, "uniformMatrix4fv", "mWorld")

\* C1 amended: in every iteration the clear precedes every draw call; each
\* draw call is preceded, with no other draw in between, by an upload to
\* mWorld of a matrix recomputed earlier in the same iteration; and in the
\* World loop (not in the interleaved loop, which clears after the upload)
\* the clear precedes every recomputation and upload of a world matrix.
C1_LoopOrder ==
    Looping =>
      \A i \in Calls : FrameOf(i) >= 1 =>
        /\ Is(i, "clear") =>
              \A j \in Calls :
                 (FrameOf(j) = FrameOf(i)
                  /\ (Is(j, "drawElements") \/ (variant = "world" /\ WritesWorld(j))))
                 => i < j
        /\ Is(i, "drawElements") =>
              /\ \E c \in 1..(i - 1) : FrameOf(c) = FrameOf(i) /\ Is(c, "clear")
              /\ \E j \in 1..(i - 1) :
                    /\ FrameOf(j) = FrameOf(i)
                    /\ IsNamed(j, "uniformMatrix4fv", "mWorld")
                    /\ \A d \in (j + 1)..(i - 1) : ~Is(d, "drawElements")
                    /\ \E k \in 1..(j - 1) :
                          /\ FrameOf(k) = FrameOf(i)
                          /\ Is(k, "mat4")
                          /\ calls[k].call.out = calls[j].call.src

\* An iteration of the interleaved loop has cleared and drawn.
C1_Witness ==
    /\ variant = "interleaved" /\ pc = "loopEnd" /\ frame = 2
    /\ CountIn(2, "clear") = 1 /\ CountIn(2, "drawElements") = 1

\* C2 as stated: every iteration that has begun and ended has called
\* requestAnimationFrame, for every input the entry point accepts, so a
\* started loop whose script has left the stack always has a callback
\* pending and never comes to rest.
C2_AlwaysRequests ==
    /\ \A f \in 1..frame : Ended(f) => CountIn(f, "requestAnimationFrame") >= 1
    /\ (Looping /\ frame >= 1 /\ StackEmpty) => pending >= 1

\* The draw calls of the iterations so far: n per ended iteration and never
\* more, each (TRIANGLES, 36, UNSIGNED_SHORT, 0) with the buffer the 36
\* indices were uploaded to at setup bound to ELEMENT_ARRAY_BUFFER.
DrawsPerFrame(n) ==
    /\ \A f \in 1..frame :
          /\ CountIn(f, "drawElements") <= n
          /\ CountIn(f, "drawArrays") = 0
          /\ Ended(f) => CountIn(f, "drawElements") = n
    /\ \A i \in Calls : Is(i, "drawElements") =>
          /\ FrameOf(i) >= 1
          /\ calls[i].call.mode = "TRIANGLES"
          /\ calls[i].call.count = 36
          /\ calls[i].call.type = "UNSIGNED_SHORT"
          /\ calls[i].call.offset = 0
          /\ gl.elementBinding \in DOMAIN gl.buffers
          /\ gl.buffers[gl.elementBinding] =
                [type |-> "Uint16Array", data |-> boxIndices]
          /\ \E b \in 1..(i - 1) :
                /\ FrameOf(b) = 0 /\ Is(b, "bufferData")
                /\ calls[b].call.target = "ELEMENT_ARRAY_BUFFER"

\* C3 as stated: every iteration issues exactly two drawElements calls in
\* the World program and exactly one in the interleaved program, never more
\* or fewer, each (TRIANGLES, 36, UNSIGNED_SHORT, 0) against the index
\* buffer uploaded at setup.
C3_ExactDraws ==
    Looping => DrawsPerFrame(IF variant = "world" THEN 2 ELSE 1)

\* C3, the part that holds: the same when World.run is given its indices,
\* as Cube() gives them.
C3_DrawsGivenIndices ==
    (Looping /\ ~IsNull(args.indices)) =>
        DrawsPerFrame(IF variant = "world" THEN 2 ELSE 1)

\* At most one frame callback is pending, and only while no script runs;
\* the setup requests exactly one frame and no iteration requests more than
\* one; the trace never goes back to an earlier iteration.
OnePending ==
    /\ pending \in 0..1
    /\ pending = 1 => StackEmpty
    /\ CountIn(0, "requestAnimationFrame") <= 1
    /\ (Looping /\ frame >= 1) => CountIn(0, "requestAnimationFrame") = 1
    /\ \A f \in 1..frame : CountIn(f, "requestAnimationFrame") <= 1
    /\ \A i, j \in Calls : i < j => FrameOf(i) <= FrameOf(j)

\* C4 as stated: iterations never overlap, at most one frame callback is
\* pending at any time, the setup requests exactly one frame and each
\* iteration requests exactly one further frame.
C4_ExactlyOneRequest ==
    /\ OnePending
    /\ \A f \in 1..frame : Ended(f) => CountIn(f, "requestAnimationFrame") = 1

\* C4, the part that holds: no overlap and at most one pending callback on
\* every input; exactly one request by every iteration that returns, none
\* by one that ends in an exception.
C4_OnePendingNoOverlap ==
    /\ OnePending
    /\ \A f \in 1..frame :
          /\ Returned(f) => CountIn(f, "requestAnimationFrame") = 1
          /\ (Ended(f) /\ ~Returned(f)) =>
                CountIn(f, "requestAnimationFrame") = 0 /\ pending = 0

\* C5: every getAttribLocation and getUniformLocation call comes after the
\* linkProgram call on the one program, and linkProgram comes after both
\* stages were compiled and attached.
C5_LinkBeforeQuery ==
    /\ Cardinality({ i \in Calls : Is(i, "createProgram") }) <= 1
    /\ Cardinality({ i \in Calls : Is(i, "linkProgram") }) <= 1
    /\ \A i \in Calls :
          /\ (Is(i, "getAttribLocation") \/ Is(i, "getUniformLocation")) =>
                \E l \in 1..(i - 1) : Is(l, "linkProgram")
          /\ Is(i, "linkProgram") =>
                \A k \in ShaderKinds :
                   \E c \in 1..(i - 1) :
                      /\ Is(c, "compileShader") /\ calls[c].call.kind = k
                      /\ \E a \in (c + 1)..(i - 1) :
                            Is(a, "attachShader") /\ calls[a].call.kind = k

\* The World program has queried its attribute and uniform locations.
C5_Witness ==
    /\ variant = "world" /\ pc = "idle" /\ frame = 0
    /\ \E i \in Calls : IsNamed(i, "getUniformLocation", "mProj")
    /\ \E i \in Calls : IsNamed(i, "getAttribLocation", "vertColor")

\* C6 as stated: when the element is absent or has no WebGL context, the
\* program alerts and stops, and makes no call on the missing context.
C6_AlertAndAbort ==
    (~host.webgl /\ pc # "start") =>
      /\ \E i \in Calls : Is(i, "alert")
      /\ \A i \in Calls : calls[i].call.on # "gl"

\* C7 as stated: when a stage fails to compile, its diagnostic is logged,
\* and the program still attaches, links, uploads its buffers and (the cube
\* programs) requests the first frame.
C7_LogAndContinue ==
    \A k \in ShaderKinds :
      (host.webgl /\ k \in host.rejects /\ pc \in {"idle", "done"}) =>
        /\ \E i \in Calls : Is(i, "console.log") /\ calls[i].call.what = k
        /\ \E i \in Calls : Is(i, "attachShader") /\ calls[i].call.kind = k
        /\ \E i \in Calls : Is(i, "linkProgram")
        /\ \E i \in Calls : Is(i, "bufferData")
        /\ Looping => CountIn(0, "requestAnimationFrame") = 1

\* Everything of the context an iteration must leave alone: all but the
\* mWorld uniform and the frame buffer's clear and draw counts.
SetupState(g) ==
    [g EXCEPT !.uniforms["mWorld"] = ZeroMatrix, !.clears = 0, !.draws = 0]

C8_SetupOnce ==
    (Looping /\ (frame >= 1 \/ pending >= 1)) =>
      /\ \A u \in {"mView", "mProj"} :
            /\ Cardinality({ i \in Calls : IsNamed(i, "uniformMatrix4fv", u) }) = 1
            /\ \A i \in Calls :
                  IsNamed(i, "uniformMatrix4fv", u) =>
                     /\ FrameOf(i) = 0
                     /\ \E r \in (i + 1)..Len(calls) : Is(r, "requestAnimationFrame")
                     /\ \A r \in 1..(i - 1) : ~Is(r, "requestAnimationFrame")
      /\ \A m \in {"lookAt", "perspective"} :
            Cardinality({ i \in Calls : Is(i, "mat4") /\ calls[i].call.fn = m }) = 1
      /\ \A i \in Calls : FrameOf(i) >= 1 =>
            \/ Op(i) \in {"performance.now", "angle", "clear", "drawElements",
                           "requestAnimationFrame", "indices.length"}
            \/ WritesWorld(i)

C8_LoopStep ==
    frame' >= 1 =>
      /\ SetupState(gl') = SetupState(gl)
      /\ js'.mat["viewMatrix"] = js.mat["viewMatrix"]
      /\ js'.mat["projMatrix"] = js.mat["projMatrix"]
      /\ js'.loc = js.loc /\ js'.uloc = js.uloc

\* C8: the view and projection matrices are computed once and uploaded to
\* mView and mProj exactly once, before the first frame is requested; a
\* step of a loop iteration changes nothing of the context but the mWorld
\* uniform and the frame buffer (no buffer, attribute binding, program,
\* mView or mProj), and leaves the view and projection matrices alone.
C8_LoopWritesOnlyWorld == [](C8_SetupOnce) /\ [][C8_LoopStep]_vars

\* An iteration has uploaded a world matrix that differs from the one the
\* setup uploaded, and has drawn.
C8_Witness ==
    /\ Looping /\ frame = 2 /\ pc = "idle"
    /\ gl.uniforms["mWorld"] # Identity /\ gl.uniforms["mView"] # ZeroMatrix
    /\ gl.draws >= 2

\* Number of vertices and, per attribute location, the components the
\* geometry gives vertex i (location 0 is vertPosition, 1 is vertColor).
VertexCount == IF variant = "triangle" THEN 6 ELSE 24
Components(l) == IF variant = "triangle" /\ l = 0 THEN 2 ELSE 3
Expected(l, i, k) ==
    IF variant = "triangle"
    THEN At(triangleVert, 5 * i + (IF l = 0 THEN 0 ELSE 2) + k)
    ELSE IF l = 1 THEN At(colors, 3 * i + k)
    ELSE IF variant = "world" THEN At(boxVertices, 3 * i + k)
    ELSE At(CubeCorners(args.length \div 2), 3 * i + k)
\* What the pointer of location l makes the GPU read as component k of
\* vertex i.
Fetched(l, i, k) ==
    LET p == gl.attribs[l]
    IN  At(gl.buffers[p.buffer].data,
           (p.offset + i * p.stride) \div BYTES_PER_ELEMENT + k)
Layout(l) ==
    LET p == gl.attribs[l]
    IN  <<p.size, p.stride \div BYTES_PER_ELEMENT, p.offset \div BYTES_PER_ELEMENT>>

\* C9: every declared attribute pointer reads, for every vertex i, exactly
\* the position (location 0) or the colour (location 1) of vertex i from a
\* Float32Array buffer, with (size, stride, offset) in floats (3, 6, 0) and
\* (3, 6, 3) in the interleaved program, (3, 3, 0) on two different buffers
\* in the World program, with or without the index buffer, and (2, 5, 0)
\* and (3, 5, 2) in the triangle program.
C9_PointersMatchLayout ==
    \A l \in DOMAIN gl.attribs : gl.attribs[l].set =>
      /\ gl.attribs[l].buffer \in DOMAIN gl.buffers
      /\ gl.buffers[gl.attribs[l].buffer].type = "Float32Array"
      /\ \A i \in 0..(VertexCount - 1) : \A k \in 0..(Components(l) - 1) :
            Fetched(l, i, k) = Expected(l, i, k)
      /\ Layout(l) = (IF variant = "interleaved" THEN <<3, 6, 3 * l>>
                      ELSE IF variant = "world" THEN <<3, 3, 0>>
                      ELSE IF l = 0 THEN <<2, 5, 0>> ELSE <<3, 5, 2>>)
      /\ (variant = "world" /\ gl.attribs[0].set /\ gl.attribs[1].set) =>
            gl.attribs[0].buffer # gl.attribs[1].buffer

\* The World program, given indices, has declared both pointers.
C9_Witness ==
    /\ variant = "world" /\ ~IsNull(args.indices)
    /\ gl.attribs[0].set /\ gl.attribs[1].set /\ Len(gl.buffers) = 3

\* C10: the vertex data uploaded by the interleaved program for side
\* length L is 24 x 6 numbers, vertex i being three positions of absolute
\* value L/2 followed by the three colour components of vertex i,
\* whatever L is; the World program uploads 24 x 3 positions; the indices
\* uploaded are 36 integers in 0..23, below 2^16.
C10_CubeGeometry ==
    /\ (variant = "interleaved" /\ pc \notin {"start", "cube", "shaders", "buffers"}
        /\ pc # "thrown") =>
          LET d == gl.buffers[1].data
          IN  /\ Len(gl.buffers) = 2
              /\ Len(d) = 24 * 6
              /\ \A i \in 0..23 :
                    /\ \A k \in 0..2 :
                          /\ At(d, 6 * i + k) \in {-(args.length \div 2), args.length \div 2}
                          /\ 2 * At(d, 6 * i + k) \in {-args.length, args.length}
                          /\ At(d, 6 * i + 3 + k) = At(colors, 3 * i + k)
              /\ gl.buffers[2].data = boxIndices
    /\ (variant = "world" /\ ~IsNull(args.indices) /\ pc \in {"runSetup", "idle"}) =>
          /\ Len(gl.buffers[1].data) = 24 * 3
          /\ gl.buffers[2].data = boxIndices
    /\ \A b \in DOMAIN gl.buffers : gl.buffers[b].type = "Uint16Array" =>
          /\ Len(gl.buffers[b].data) = 36
          /\ \A x \in DOMAIN gl.buffers[b].data :
                gl.buffers[b].data[x] \in 0..23 /\ gl.buffers[b].data[x] < 65536

\* The interleaved program has uploaded the cube of the largest side.
C10_Witness ==
    /\ variant = "interleaved" /\ pc = "setup" /\ args.length = Hundredths(MaxSide)
    /\ Len(gl.buffers[1].data) = 144 /\ gl.buffers[2].type = "Uint16Array"

=============================================================================
